---- MODULE Spec2Model ----
(***************************************************************************)
(* The swapchain lifecycle of the Vulkan pre-rotation demo:                *)
(* Engine (Engine.cpp) guarding a Renderer (Renderer.cpp, Renderer.h).     *)
(* The platform's answers (present result, acquired image index, surface   *)
(* capabilities, swapchain image count) are inputs of the operations; the  *)
(* GPU signals the in-flight fences asynchronously.                        *)
(***************************************************************************)
EXTENDS Integers, Sequences, FiniteSets, TLC

\* ---------------------------------------------------------------- constants
kInflight == 2
kPreRotationLatency == 30
kReqImageCount == 3
VK_NULL_HANDLE == 0

\* ------------------------------------------------------------------- bounds
\* Frames drawn in one run of the full model, and of the countdown model.
MaxFrames == 3
MaxFramesLong == 32
\* Frames drawn in the resize model, and generations a resize may follow.
MaxFramesResize == 13
MaxGenerations == 1
\* Frames drawn in the model of createSwapchain.
MaxFramesSurface == 1
\* Images a swapchain may hold beyond the requested minimum (in the model of
\* createSwapchain).
MaxExtraImages == 1
\* Window creations (APP_CMD_INIT_WINDOW) in one run.
MaxInits == 2
\* frames drawn in the model of the engine's threads
MaxFramesEngine == 2
\* frames drawn in the model of the rotation check
MaxFramesRotation == 2
\* Frames in which a half turn or a resize may force a swap, in the model of
\* the latency counter.
MaxFramesForced == 3

\* ------------------------------------------------------- platform's values
Identity  == "IDENTITY"
Rotate90  == "ROTATE_90"
Rotate180 == "ROTATE_180"
Rotate270 == "ROTATE_270"
HMirror   == "HORIZONTAL_MIRROR"
Transforms == {Identity, Rotate90, Rotate180, Rotate270, HMirror}

VK_SUCCESS               == "VK_SUCCESS"
VK_SUBOPTIMAL_KHR        == "VK_SUBOPTIMAL_KHR"
VK_ERROR_OUT_OF_DATE_KHR == "VK_ERROR_OUT_OF_DATE_KHR"
PresentResults == {VK_SUCCESS, VK_SUBOPTIMAL_KHR, VK_ERROR_OUT_OF_DATE_KHR}

\* Surface extents <<width, height>> the platform reports or notifies.
Extents == {<<1080, 1920>>, <<800, 600>>}
AllExtents == Extents \cup {<<1920, 1080>>, <<600, 600>>}
\* What vkGetPhysicalDeviceSurfaceCapabilitiesKHR may answer.
CapsOf(extents, transforms) ==
    [currentExtent : extents, currentTransform : transforms]
\* The answers drawn on in the full model: both extents, a half turn apart.
SurfaceCaps == {[currentExtent |-> <<1080, 1920>>, currentTransform |-> Identity],
                [currentExtent |-> <<800, 600>>, currentTransform |-> Rotate180]}
\* In the countdown model: one extent, a quarter turn apart.
QuarterTurns == {Identity, Rotate90}
QuarterCaps == CapsOf({<<1080, 1920>>}, QuarterTurns)
\* In the model of createSwapchain alone: every transform and extent.
AllCaps == CapsOf(AllExtents, Transforms)
\* In the resize model: both extents, no rotation.
UprightCaps == CapsOf(Extents, {Identity})
ImageCounts == kReqImageCount .. (kReqImageCount + MaxExtraImages)
\* The <<width, height>> of the texture loaded from the asset file.
SquareTexture == <<512, 512>>
TextureSizes == {SquareTexture, <<1024, 512>>, <<300, 400>>}

\* The counters are uint32_t in the source; no run within the bounds below comes
\* near 2^32, so they are kept as plain integers.

VARIABLES
    \* Engine
    mIsRendererReady, mLock,
    \* the looper: the frame callbacks posted to the choreographer and not yet
    \* run
    posted,
    \* the threads: where each one is in the entry point it has called
    pc,
    \* Renderer
    mDevice, mTextures, mFrameCount,
    mSurfaceWidth, mSurfaceHeight, mImageWidth, mImageHeight, mPreTransform,
    mSwapchain, mImages, mImageViews, mFramebuffers,
    mFireRecreateSwapchain, mPreRotationLatency, mRetireFrame,
    mOldSwapchain, mOldImages, mOldImageViews, mOldFramebuffers,
    mInflightFences,
    \* the device: the last submission on each slot, and the live handles
    gpu, nextImage, live, doubleFreed, swappedAt,
    \* the process
    aborted,
    \* history
    log, probed, notified, subRun, cleanRun, stale, lastSwap, inits, released,
    termNoOp

renderer == <<mDevice, mTextures, mFrameCount, mSurfaceWidth, mSurfaceHeight, mImageWidth,
              mImageHeight, mPreTransform, mSwapchain, mImages, mImageViews,
              mFramebuffers, mFireRecreateSwapchain, mPreRotationLatency,
              mRetireFrame, mOldSwapchain, mOldImages, mOldImageViews,
              mOldFramebuffers, mInflightFences>>
device == <<gpu, nextImage, live, doubleFreed, swappedAt>>
history == <<log, probed, notified, subRun, cleanRun, stale, lastSwap,
             inits, released, termNoOp>>
engine == <<mLock, pc, posted>>
vars == <<mIsRendererReady, renderer, device, aborted, history, engine>>

\* --------------------------------------------------------------- handles
\* A swapchain handle is a positive number; image i of swapchain g, and the
\* view and the framebuffer built on it, are named by g at position i.
ScHandle(g)      == <<"swapchain", g, 0>>
ViewHandle(g, i) == <<"view", g, i>>
FbHandle(g, i)   == <<"framebuffer", g, i>>

HandlesOf(kind, vec) ==
    {<<kind, vec[i], i>> : i \in {j \in 1..Len(vec) : vec[j] # VK_NULL_HANDLE}}

\* std::vector::resize(n, VK_NULL_HANDLE): keeps the first n elements.
\* A resize that leaves the vector as it is: C22 tells it from Resize.
ResizeKept(vec, n) == vec

Resize(vec, n) ==
    [i \in 1..n |-> IF i <= Len(vec) THEN vec[i] ELSE VK_NULL_HANDLE]

NoSubmission == [frame |-> -1, fb |-> VK_NULL_HANDLE, index |-> 0, done |-> TRUE]
NoLog == [n |-> -1]
NoSwap == [frame |-> -1, outgoing |-> VK_NULL_HANDLE, handles |-> {},
           notified |-> FALSE]

\* ------------------------------------------------------------ pure helpers
\* Renderer::drawFrame line 55: the slot of a frame (slots are numbered from 1
\* here, from 0 in the source's vectors).
FrameIndex(frameCount) == (frameCount % kInflight) + 1

\* A frame that does not wait for its slot's fence: C6 tells it from
\* WaitForFences.
WaitForFencesNoWait(slot) == TRUE

\* Renderer::drawFrame lines 56-57: vkWaitForFences returns VK_SUCCESS when
\* the slot's fence is signaled.
WaitForFences(slot) == mInflightFences[slot]

\* A probe that never sees a half turn: C7 tells it from is180Rotation.
is180RotationNever(currentTransform) == FALSE

\* A check that knows the upright half turn only: C24 tells it from
\* is180Rotation.
is180RotationUpright(currentTransform) ==
    \/ currentTransform = Identity /\ mPreTransform = Rotate180
    \/ currentTransform = Rotate180 /\ mPreTransform = Identity

\* Renderer::is180Rotation: the probed transform against the generation's.
is180Rotation(currentTransform) ==
    CASE currentTransform = Identity  -> mPreTransform = Rotate180
      [] currentTransform = Rotate90  -> mPreTransform = Rotate270
      [] currentTransform = Rotate180 -> mPreTransform = Identity
      [] currentTransform = Rotate270 -> mPreTransform = Rotate90
      [] OTHER -> FALSE

\* A retire check that reads the frame count after its increment: C19 tells
\* it from RetireDue.
RetireDueIncremented ==
    mOldSwapchain # VK_NULL_HANDLE /\ mRetireFrame = mFrameCount + 1

\* Renderer::drawFrame line 100.
RetireDue == mOldSwapchain # VK_NULL_HANDLE /\ mRetireFrame = mFrameCount

\* Renderer::drawFrame line 106.
SwapTrigger(ret) == ret = VK_SUBOPTIMAL_KHR \/ mFireRecreateSwapchain

\* A counter that never counts down: C9 tells it from LatencyAfterCheck.
LatencyStuck(currentTransform) == mPreRotationLatency

\* A counter decremented in every frame that reaches the check, forced swap
\* or not: C28 tells it from LatencyAfterCheck.
LatencyCountedAlways(currentTransform) == mPreRotationLatency - 1

\* Renderer::drawFrame line 109: || short-circuits, so the counter is
\* decremented only when neither of the first two operands holds.
LatencyAfterCheck(currentTransform) ==
    IF is180Rotation(currentTransform) \/ mFireRecreateSwapchain
    THEN mPreRotationLatency
    ELSE mPreRotationLatency - 1

\* A swap check that fires on every trigger: C1 tells it from SwapNow.
SwapNowAlways(currentTransform) == TRUE

SwapNow(currentTransform) ==
    \/ is180Rotation(currentTransform)
    \/ mFireRecreateSwapchain
    \/ LatencyAfterCheck(currentTransform) = 0

\* Retirement a frame late, and a frame early: C2 and C3 tell them from
\* RetireFrameFor.
RetireFrameLate(frameCount) == frameCount + kInflight + 1

RetireFrameEarly(frameCount) == frameCount + 1

\* Renderer::drawFrame line 118.
RetireFrameFor(frameCount) == frameCount + kInflight

\* An image extent that ignores the transform: C10 tells it from
\* ImageExtent.
ImageExtentAsProbed(caps) == caps.currentExtent

\* Renderer::createSwapchain lines 398-405: the physical image extent.
ImageExtent(caps) ==
    IF caps.currentTransform = Rotate90 \/ caps.currentTransform = Rotate270
    THEN <<caps.currentExtent[2], caps.currentExtent[1]>>
    ELSE caps.currentExtent

\* Renderer::createSwapchain: the generation built from the probed
\* capabilities; views and fbs are mImageViews and mFramebuffers as they
\* stand when it is called, resized to the new image count.
createSwapchain(caps, imageCount, views, fbs) ==
    LET handle == Len(swappedAt) + 1 IN
    [ mSurfaceWidth  |-> caps.currentExtent[1],
      mSurfaceHeight |-> caps.currentExtent[2],
      mImageWidth    |-> ImageExtent(caps)[1],
      mImageHeight   |-> ImageExtent(caps)[2],
      mPreTransform  |-> caps.currentTransform,
      mSwapchain     |-> handle,
      mImages        |-> [i \in 1..imageCount |-> handle],
      mImageViews    |-> Resize(views, imageCount),
      mFramebuffers  |-> Resize(fbs, imageCount) ]

\* Renderer::destroyOldSwapchain: what it hands to vkDestroy*.
\* vkDestroy* of VK_NULL_HANDLE does nothing.
OldSwapchainHandles ==
    HandlesOf("framebuffer", mOldFramebuffers)
        \cup HandlesOf("view", mOldImageViews)
        \cup (IF mOldSwapchain = VK_NULL_HANDLE THEN {} ELSE {ScHandle(mOldSwapchain)})

\* Renderer::destroy lines 200-210: the current generation's handles.
CurrentSwapchainHandles(views, fbs) ==
    HandlesOf("view", views) \cup HandlesOf("framebuffer", fbs)
        \cup (IF mSwapchain = VK_NULL_HANDLE THEN {} ELSE {ScHandle(mSwapchain)})

\* A notification that sets the flag whatever it carries: C15 tells it from
\* updateSurface.
updateSurfaceAlways(width, height) == TRUE

\* A notification that is dropped: C8 tells it from updateSurface.
updateSurfaceIgnored(width, height) == mFireRecreateSwapchain

\* Renderer::updateSurface lines 136-138.
updateSurface(width, height) ==
    IF mSurfaceWidth # width \/ mSurfaceHeight # height
    THEN TRUE
    ELSE mFireRecreateSwapchain

\* ------------------------------------------------- the push constants
\* The entries of the pre-rotation matrix are floats; they are kept here in
\* units of 10^-8, nearest to the float the source computes.
FixHalf == 10000
FixUnit == FixHalf * FixHalf

\* The switch with the cases of Rotate90 and Rotate270 exchanged.
RadiansExchanged(transform) ==
    CASE transform = Rotate90  -> 471238899
      [] transform = Rotate180 -> 314159274
      [] transform = Rotate270 -> 157079637
      [] OTHER -> 0

\* Renderer::recordCommandBuffer lines 1337-1350: glm::radians(90.0F),
\* (180.0F), (270.0F) are the floats 1.57079637, 3.14159274, 4.71238899; any
\* other transform leaves radians at 0.
Radians(transform) ==
    CASE transform = Rotate90  -> 157079637
      [] transform = Rotate180 -> 314159274
      [] transform = Rotate270 -> 471238899
      [] OTHER -> 0

\* cos and sin in single precision, of the four angles above:
\* cos(1.57079637) = -4.37e-8, sin(3.14159274) = -8.74e-8,
\* cos(4.71238899) = 1.19e-8.
CosF(radians) ==
    CASE radians = 157079637 -> -4
      [] radians = 314159274 -> -FixUnit
      [] radians = 471238899 -> 1
      [] OTHER -> FixUnit

SinF(radians) ==
    CASE radians = 157079637 -> FixUnit
      [] radians = 314159274 -> -9
      [] radians = 471238899 -> -FixUnit
      [] OTHER -> 0

\* A matrix that is no rotation: the sine with one sign in both places.
Rotate2Symmetric(radians) ==
    [xx |-> CosF(radians), xy |-> SinF(radians),
     yx |-> SinF(radians), yy |-> CosF(radians)]

\* Line 1351: glm::rotate(mat4(1), radians, (0, 0, 1)) cut down to its upper
\* left mat2; entry rc is row r, column c.
Rotate2(radians) ==
    [xx |-> CosF(radians), xy |-> -SinF(radians),
     yx |-> SinF(radians), yy |-> CosF(radians)]

\* Renderer::recordCommandBuffer lines 1336-1351.
preRotate(transform) == Rotate2(Radians(transform))

\* A positive float is [m, e], its value m * 2^e with 2^23 <= m < 2^24.
RECURSIVE Pow2(_)
Pow2(n) == IF n = 0 THEN 1 ELSE 2 * Pow2(n - 1)

RECURSIVE F32Normal(_, _)
F32Normal(m, e) ==
    IF m >= Pow2(23) THEN [m |-> m, e |-> e] ELSE F32Normal(2 * m, e - 1)

\* (float)n of an unsigned n below 2^24: exact.
F32FromInt(n) == F32Normal(n, 0)

\* bits more binary digits of rem / den after those in acc; <<digits, rest>>.
RECURSIVE LongDivide(_, _, _, _)
LongDivide(acc, rem, den, bits) ==
    IF bits = 0 THEN <<acc, rem>>
    ELSE IF 2 * rem >= den
         THEN LongDivide(2 * acc + 1, 2 * rem - den, den, bits - 1)
         ELSE LongDivide(2 * acc, 2 * rem, den, bits - 1)

\* a / b in single precision: the quotient of the mantissas to 25 binary
\* places, rounded to 24 significant bits, to nearest and to even on a tie.
F32Div(a, b) ==
    LET q     == LongDivide(a.m \div b.m, a.m % b.m, b.m, 25)
        drop  == IF q[1] >= Pow2(25) THEN 2 ELSE 1
        kept  == q[1] \div Pow2(drop)
        low   == q[1] % Pow2(drop)
        half  == Pow2(drop - 1)
        up    == \/ low > half
                 \/ low = half /\ q[2] # 0
                 \/ low = half /\ q[2] = 0 /\ kept % 2 = 1
        m1    == IF up THEN kept + 1 ELSE kept
        e1    == a.e - b.e - 25 + drop
    IN IF m1 = Pow2(24) THEN [m |-> Pow2(23), e |-> e1 + 1]
       ELSE [m |-> m1, e |-> e1]

\* a < b of two positive floats.
F32Less(a, b) == a.e < b.e \/ (a.e = b.e /\ a.m < b.m)

\* The larger of the two scales in place of the smaller.
MaximalScale(scaleW, scaleH) == IF F32Less(scaleW, scaleH) THEN scaleH ELSE scaleW

\* Renderer::recordCommandBuffer line 1331.
MinimalScale(scaleW, scaleH) == IF F32Less(scaleW, scaleH) THEN scaleW ELSE scaleH

\* The Y scale computed as the X scale is.
ScaleOverWidth(surfaceWidth, surfaceHeight, texture) ==
    LET scaleW == F32Div(F32FromInt(surfaceWidth), F32FromInt(texture[1]))
        scaleH == F32Div(F32FromInt(surfaceHeight), F32FromInt(texture[2]))
    IN  [x |-> F32Div(MinimalScale(scaleW, scaleH), scaleW),
         y |-> F32Div(MinimalScale(scaleW, scaleH), scaleW)]

\* Renderer::recordCommandBuffer lines 1329-1334: the X and Y scale factors
\* on the diagonal of mvp.
Mvp(surfaceWidth, surfaceHeight, texture) ==
    LET scaleW == F32Div(F32FromInt(surfaceWidth), F32FromInt(texture[1]))
        scaleH == F32Div(F32FromInt(surfaceHeight), F32FromInt(texture[2]))
    IN  [x |-> F32Div(MinimalScale(scaleW, scaleH), scaleW),
         y |-> F32Div(MinimalScale(scaleW, scaleH), scaleH)]

\* Renderer::recordCommandBuffer line 1334: the mvp of each surface size a
\* generation can have and each texture size.
SurfaceSizes == AllExtents \cup {<<e[2], e[1]>> : e \in AllExtents}
mvp == [s \in SurfaceSizes, t \in TextureSizes |-> Mvp(s[1], s[2], t)]

\* ---------------------------------------------------------- claims' terms
\* The distance of two positive floats, in units of the last place of the
\* one with the smaller exponent; far apart counts as 2^24.
UlpsApart(a, b) ==
    LET d == IF a.e = b.e THEN a.m - b.m
             ELSE IF a.e = b.e + 1 THEN 2 * a.m - b.m
             ELSE IF b.e = a.e + 1 THEN a.m - 2 * b.m
             ELSE Pow2(24)
    IN IF d < 0 THEN -d ELSE d

\* The product of two numbers in units of 10^-8, cut off towards zero; the
\* operands are split so that no partial product passes 2^31.
MulFix(a, b) ==
    LET aa == IF a < 0 THEN -a ELSE a
        bb == IF b < 0 THEN -b ELSE b
        a1 == aa \div FixHalf
        a0 == aa % FixHalf
        b1 == bb \div FixHalf
        b0 == bb % FixHalf
        p  == a1 * b1 + ((a1 * b0 + a0 * b1) + (a0 * b0) \div FixHalf) \div FixHalf
    IN IF (a < 0) = (b < 0) THEN p ELSE -p

MatMul(m, n) ==
    [xx |-> MulFix(m.xx, n.xx) + MulFix(m.xy, n.yx),
     xy |-> MulFix(m.xx, n.xy) + MulFix(m.xy, n.yy),
     yx |-> MulFix(m.yx, n.xx) + MulFix(m.yy, n.yx),
     yy |-> MulFix(m.yx, n.xy) + MulFix(m.yy, n.yy)]

\* The rotation by a multiple of 90 degrees, exactly.
RotationBy(degrees) ==
    CASE degrees = 90  -> [xx |-> 0, xy |-> -FixUnit, yx |-> FixUnit, yy |-> 0]
      [] degrees = 180 -> [xx |-> -FixUnit, xy |-> 0, yx |-> 0, yy |-> -FixUnit]
      [] degrees = 270 -> [xx |-> 0, xy |-> FixUnit, yx |-> -FixUnit, yy |-> 0]
      [] OTHER -> [xx |-> FixUnit, xy |-> 0, yx |-> 0, yy |-> FixUnit]

\* Two matrices equal to within 10^-6 in every entry.
NearMatrix(m, n) ==
    \A k \in {"xx", "xy", "yx", "yy"} :
       m[k] - n[k] \in -(FixUnit \div (FixHalf * 100)) .. (FixUnit \div (FixHalf * 100))

Degrees(t) ==
    CASE t = Identity -> 0 [] t = Rotate90 -> 90 [] t = Rotate180 -> 180
      [] t = Rotate270 -> 270 [] OTHER -> -1

\* Two transforms that are rotations, half a turn apart.
HalfTurn(a, b) ==
    /\ Degrees(a) >= 0
    /\ Degrees(b) >= 0
    /\ (Degrees(a) - Degrees(b) + 360) % 360 = 180

\* ---------------------------------------------------------------- threads
\* android_main's looper thread runs handleAppCmd and onChoreographer; the
\* activity's thread runs handleNativeWindowResized.
RenderThread == "render"
HostThread == "host"
Threads == {RenderThread, HostThread}
NoThread == "none"

EntryPoints(t) ==
    IF t = RenderThread
    THEN {"isReady", "drawFrame", "onInitWindow", "onTermWindow"}
    ELSE {"onWindowResized"}

Idle == [op |-> "none", at |-> "idle"]

\* A mutex that admits a second holder: C16 tells it from lock_guard.
lock_guardAdmitsAll(t) == TRUE

\* std::lock_guard<std::mutex> lock(mLock): the constructor returns once no
\* thread holds the mutex.
lock_guard(t) == mLock = NoThread

\* A check that always passes: C17 tells it from RendererReady.
RendererReadyAlways == TRUE

\* Engine::drawFrame line 28: if (mIsRendererReady).
RendererReady == mIsRendererReady

\* ---------------------------------------------------------------- destroy
\* A teardown that destroys the surface ahead of the device: C20 tells it
\* from destroy.
destroySurfaceFirst ==
    (IF mDevice # VK_NULL_HANDLE
     THEN <<"fences", "semaphores", "commandBuffers", "commandPool",
            "vertexBuffer", "pipeline", "pipelineLayout", "renderPass",
            "descriptorPool", "descriptorSetLayout", "textures">>
          \o (IF mOldSwapchain # VK_NULL_HANDLE THEN <<"oldSwapchain">> ELSE <<>>)
          \o <<"swapchain", "surface", "device">>
     ELSE <<"surface">>)
    \o <<"instance">>

\* Renderer::destroy lines 141-228: the objects released, in the order of the
\* calls that release them. destroyOldSwapchain (line 198) releases a
\* swapchain only when a superseded generation is held.
destroy ==
    (IF mDevice # VK_NULL_HANDLE
     THEN <<"fences", "semaphores", "commandBuffers", "commandPool",
            "vertexBuffer", "pipeline", "pipelineLayout", "renderPass",
            "descriptorPool", "descriptorSetLayout", "textures">>
          \o (IF mOldSwapchain # VK_NULL_HANDLE THEN <<"oldSwapchain">> ELSE <<>>)
          \o <<"swapchain", "device">>
     ELSE <<>>)
    \o <<"surface", "instance">>

\* ---------------------------------------------------------------- Init
Init ==
    /\ mIsRendererReady = FALSE
    /\ mLock = NoThread
    /\ pc = [t \in Threads |-> Idle]
    /\ posted = 0
    /\ mDevice = VK_NULL_HANDLE
    /\ mTextures = <<>>
    /\ mFrameCount = 0
    /\ mSurfaceWidth = 0 /\ mSurfaceHeight = 0
    /\ mImageWidth = 0 /\ mImageHeight = 0
    /\ mPreTransform = Identity
    /\ mSwapchain = VK_NULL_HANDLE
    /\ mImages = <<>> /\ mImageViews = <<>> /\ mFramebuffers = <<>>
    /\ mFireRecreateSwapchain = FALSE
    /\ mPreRotationLatency = kPreRotationLatency
    /\ mRetireFrame = 0
    /\ mOldSwapchain = VK_NULL_HANDLE
    /\ mOldImages = <<>> /\ mOldImageViews = <<>> /\ mOldFramebuffers = <<>>
    /\ mInflightFences = <<>>
    /\ gpu = <<>> /\ nextImage = 1
    /\ live = {} /\ doubleFreed = {} /\ swappedAt = <<>>
    /\ aborted = FALSE
    /\ log = NoLog /\ probed = <<>>
    /\ notified = FALSE /\ subRun = 0 /\ cleanRun = 0 /\ stale = 0
    /\ lastSwap = NoSwap /\ inits = 0
    /\ released = <<>>
    /\ termNoOp = FALSE

\* ------------------------------------------------------------- operations
\* Engine::onInitWindow -> Renderer::initialize. The activity glue sends
\* APP_CMD_INIT_WINDOW only when no window is set.
onInitWindow(caps, imageCount, texture) ==
    LET new == createSwapchain(caps, imageCount, mImageViews, mFramebuffers) IN
    /\ ~aborted
    /\ ~mIsRendererReady
    /\ mDevice' = 1
    /\ mTextures' = texture
    /\ mSurfaceWidth' = new.mSurfaceWidth
    /\ mSurfaceHeight' = new.mSurfaceHeight
    /\ mImageWidth' = new.mImageWidth
    /\ mImageHeight' = new.mImageHeight
    /\ mPreTransform' = new.mPreTransform
    /\ mSwapchain' = new.mSwapchain
    /\ mImages' = new.mImages
    /\ mImageViews' = new.mImageViews
    /\ mFramebuffers' = new.mFramebuffers
    /\ mInflightFences' = [i \in 1..kInflight |-> TRUE]
    /\ gpu' = [i \in 1..kInflight |-> NoSubmission]
    /\ nextImage' = 1
    /\ live' = live \cup {ScHandle(new.mSwapchain)}
    /\ swappedAt' = Append(swappedAt, -1)
    /\ mIsRendererReady' = TRUE
    /\ probed' = caps
    /\ inits' = inits + 1
    /\ released' = <<>>
    /\ termNoOp' = FALSE
    /\ UNCHANGED <<mFrameCount, mFireRecreateSwapchain, mPreRotationLatency,
                   mRetireFrame, mOldSwapchain, mOldImages, mOldImageViews,
                   mOldFramebuffers, doubleFreed, aborted, log, notified,
                   subRun, cleanRun, stale, lastSwap>>

\* Engine::onWindowResized -> Renderer::updateSurface.
onWindowResized(width, height) ==
    /\ ~aborted
    /\ mFireRecreateSwapchain' =
          IF mIsRendererReady THEN updateSurface(width, height)
          ELSE mFireRecreateSwapchain
    /\ notified' = (notified \/ (mIsRendererReady
                                 /\ <<width, height>> # <<mSurfaceWidth, mSurfaceHeight>>))
    /\ UNCHANGED <<mIsRendererReady, mDevice, mTextures, mFrameCount, mSurfaceWidth,
                   mSurfaceHeight, mImageWidth, mImageHeight, mPreTransform,
                   mSwapchain, mImages, mImageViews, mFramebuffers,
                   mPreRotationLatency, mRetireFrame, mOldSwapchain, mOldImages,
                   mOldImageViews, mOldFramebuffers, mInflightFences, device,
                   aborted, log, probed, subRun, cleanRun, stale, lastSwap,
                   inits, released, termNoOp>>

\* A teardown that runs whether or not a renderer is up: C29 tells it from
\* RendererToDestroy.
RendererToDestroyAlways == TRUE

\* Engine::onTermWindow line 51: if (mIsRendererReady); a ready renderer holds
\* a device.
RendererToDestroy == mIsRendererReady /\ mDevice # VK_NULL_HANDLE

\* Engine::onTermWindow -> Renderer::destroy: the handles of both
\* generations are released, released records the objects in the order of
\* their release, and the record of the last frame ends with the renderer.
\* termNoOp records that a call found no renderer to destroy.
\* vkDeviceWaitIdle returns when every submission has completed.
onTermWindow ==
    LET handles == OldSwapchainHandles
                     \cup CurrentSwapchainHandles(mImageViews, mFramebuffers) IN
    /\ ~aborted
    /\ IF RendererToDestroy
       THEN /\ mInflightFences' = <<>>
            /\ gpu' = <<>>
            /\ nextImage' = 1
            /\ mOldFramebuffers' = <<>> /\ mOldImageViews' = <<>>
            /\ mOldImages' = <<>> /\ mOldSwapchain' = VK_NULL_HANDLE
            /\ mImageViews' = <<>> /\ mFramebuffers' = <<>> /\ mImages' = <<>>
            /\ live' = live \ handles
            /\ doubleFreed' = doubleFreed \cup (handles \ live)
            /\ mDevice' = VK_NULL_HANDLE
            /\ mTextures' = <<>>
            /\ mIsRendererReady' = FALSE
            /\ subRun' = 0 /\ cleanRun' = 0 /\ stale' = 0
            /\ lastSwap' = NoSwap
            /\ released' = destroy
            /\ log' = NoLog
            /\ termNoOp' = FALSE
       ELSE /\ termNoOp' = TRUE
            /\ UNCHANGED <<mInflightFences, gpu, nextImage, mOldFramebuffers, mOldImageViews,
                           mOldImages, mOldSwapchain, mImageViews, mFramebuffers,
                           mImages, live, doubleFreed, mDevice, mTextures,
                           mIsRendererReady,
                           subRun, cleanRun, stale, lastSwap, released, log>>
    /\ UNCHANGED <<mFrameCount, mSurfaceWidth, mSurfaceHeight, mImageWidth,
                   mImageHeight, mPreTransform, mSwapchain, mFireRecreateSwapchain,
                   mPreRotationLatency, mRetireFrame, swappedAt, aborted,
                   probed, notified, inits>>

\* The GPU finishes the submission of a slot and signals its fence.
GpuComplete(slot) ==
    /\ ~aborted
    /\ slot \in DOMAIN gpu
    /\ gpu[slot].frame >= 0
    /\ ~gpu[slot].done
    /\ gpu' = [gpu EXCEPT ![slot].done = TRUE]
    /\ mInflightFences' = [mInflightFences EXCEPT ![slot] = TRUE]
    /\ UNCHANGED <<mIsRendererReady, mDevice, mTextures, mFrameCount, mSurfaceWidth,
                   mSurfaceHeight, mImageWidth, mImageHeight, mPreTransform,
                   mSwapchain, mImages, mImageViews, mFramebuffers,
                   mFireRecreateSwapchain, mPreRotationLatency, mRetireFrame,
                   mOldSwapchain, mOldImages, mOldImageViews, mOldFramebuffers,
                   nextImage, live, doubleFreed, swappedAt, aborted, history>>

\* A frame that submits nothing: C26 tells it from QueueSubmit.
QueueSubmitDropped(slot, fb, imageIndex) == gpu

\* Renderer::drawFrame lines 73-85: the slot's command buffer, recorded
\* against the framebuffer of the acquired image, is submitted with the
\* slot's fence.
QueueSubmit(slot, fb, imageIndex) ==
    [gpu EXCEPT ![slot] = [frame |-> mFrameCount, fb |-> fb,
                           index |-> imageIndex, done |-> FALSE]]

\* vkAcquireNextImageKHR under VK_PRESENT_MODE_FIFO_KHR (line 427): the
\* presentation engine hands out a swapchain's images in turn, or its first
\* image once more.
AcquireNextImage == {nextImage, 1}

\* Engine::drawFrame -> Renderer::drawFrame, a frame that reaches the swap
\* check. ret is vkQueuePresentKHR's result, imageIndex the image
\* vkAcquireNextImageKHR hands out, currentTransform what the surface
\* reports to is180Rotation, caps and imageCount what the platform reports to
\* createSwapchain when a swap is executed.
drawFrame(ret, imageIndex, currentTransform, caps, imageCount) ==
    LET slot       == FrameIndex(mFrameCount)
        \* lines 66-69 and createFramebuffer
        needFb  == mFramebuffers[imageIndex] = VK_NULL_HANDLE
        views1  == IF needFb
                   THEN [mImageViews EXCEPT ![imageIndex] = mImages[imageIndex]]
                   ELSE mImageViews
        fbs1    == IF needFb
                   THEN [mFramebuffers EXCEPT ![imageIndex] = mImages[imageIndex]]
                   ELSE mFramebuffers
        built   == IF needFb
                   THEN {ViewHandle(mImages[imageIndex], imageIndex),
                         FbHandle(mImages[imageIndex], imageIndex)}
                   ELSE {}
        \* lines 71-85: record and submit
        gpu1    == QueueSubmit(slot, fbs1[imageIndex], imageIndex)
        \* lines 100-102
        retire  == RetireDue
        retired == IF retire THEN OldSwapchainHandles ELSE {}
        oldSc1     == IF retire THEN VK_NULL_HANDLE ELSE mOldSwapchain
        oldImages1 == IF retire THEN <<>> ELSE mOldImages
        oldViews1  == IF retire THEN <<>> ELSE mOldImageViews
        oldFbs1    == IF retire THEN <<>> ELSE mOldFramebuffers
        \* lines 106-127
        trigger == SwapTrigger(ret)
        swap    == trigger /\ SwapNow(currentTransform)
        fatal   == ~trigger /\ ret # VK_SUCCESS
        new     == createSwapchain(caps, imageCount, oldViews1, oldFbs1)
        \* the frame in the claims' terms
        differ  == ret = VK_SUBOPTIMAL_KHR /\ currentTransform # mPreTransform
        half    == ret = VK_SUBOPTIMAL_KHR /\ HalfTurn(currentTransform, mPreTransform)
        counted == ret = VK_SUBOPTIMAL_KHR /\ ~mFireRecreateSwapchain /\ ~half
    IN
    /\ ~aborted
    /\ mIsRendererReady
    /\ WaitForFences(slot)
    /\ mInflightFences' = [mInflightFences EXCEPT ![slot] = FALSE]
    /\ gpu' = gpu1
    /\ IF swap
       THEN /\ mPreRotationLatency' = kPreRotationLatency
            /\ mFireRecreateSwapchain' = FALSE
            /\ mOldSwapchain' = mSwapchain
            /\ mOldImages' = mImages
            /\ mOldImageViews' = views1
            /\ mOldFramebuffers' = fbs1
            /\ mRetireFrame' = RetireFrameFor(mFrameCount)
            /\ mSurfaceWidth' = new.mSurfaceWidth
            /\ mSurfaceHeight' = new.mSurfaceHeight
            /\ mImageWidth' = new.mImageWidth
            /\ mImageHeight' = new.mImageHeight
            /\ mPreTransform' = new.mPreTransform
            /\ mSwapchain' = new.mSwapchain
            /\ mImages' = new.mImages
            /\ mImageViews' = new.mImageViews
            /\ mFramebuffers' = new.mFramebuffers
            /\ nextImage' = 1
            /\ swappedAt' = Append([swappedAt EXCEPT ![mSwapchain] = mFrameCount], -1)
            /\ probed' = caps
            /\ lastSwap' = [frame |-> mFrameCount, outgoing |-> mSwapchain,
                             handles |-> CurrentSwapchainHandles(views1, fbs1),
                             notified |-> notified]
       ELSE /\ mPreRotationLatency' =
                  IF trigger THEN LatencyAfterCheck(currentTransform)
                  ELSE mPreRotationLatency
            /\ mOldSwapchain' = oldSc1
            /\ mOldImages' = oldImages1
            /\ mOldImageViews' = oldViews1
            /\ mOldFramebuffers' = oldFbs1
            /\ mImageViews' = views1
            /\ mFramebuffers' = fbs1
            /\ nextImage' = (imageIndex % Len(mImages)) + 1
            /\ lastSwap' = IF retire THEN NoSwap ELSE lastSwap
            /\ UNCHANGED <<mFireRecreateSwapchain, mRetireFrame, mSurfaceWidth,
                           mSurfaceHeight, mImageWidth, mImageHeight,
                           mPreTransform, mSwapchain, mImages, swappedAt, probed>>
    /\ live' = ((live \cup built) \ retired)
                  \cup (IF swap THEN {ScHandle(new.mSwapchain)} ELSE {})
    /\ doubleFreed' = doubleFreed \cup (retired \ (live \cup built))
    /\ aborted' = fatal
    /\ mFrameCount' = IF fatal THEN mFrameCount ELSE mFrameCount + 1
    /\ log' = [ n |-> mFrameCount, slot |-> slot,
                fenceSignaled |-> mInflightFences[slot],
                prevOnSlot |-> gpu[slot].frame, prevDone |-> gpu[slot].done,
                ret |-> ret, notified |-> notified, half |-> half,
                pre |-> mPreTransform, stale |-> stale,
                preRotate |-> preRotate(mPreTransform),
                mvp |-> mvp[<<mSurfaceWidth, mSurfaceHeight>>, mTextures],
                surface |-> <<mSurfaceWidth, mSurfaceHeight>>,
                texture |-> mTextures,
                latency |-> mPreRotationLatency, fatal |-> fatal,
                checked |-> IF trigger THEN LatencyAfterCheck(currentTransform)
                            ELSE mPreRotationLatency,
                swapped |-> swap,
                oldAtSwap |-> IF swap THEN oldSc1 ELSE VK_NULL_HANDLE,
                created |-> IF swap THEN {new.mSwapchain} ELSE {},
                outgoing |-> IF swap THEN mSwapchain ELSE VK_NULL_HANDLE,
                retired |-> retired, oldAfterRetire |-> oldSc1,
                prevSwap |-> lastSwap,
                unwaited |-> {<<gpu1[s].fb, gpu1[s].index>> :
                                 s \in {t \in 1..kInflight : gpu1[t].frame >= 0}} ]
    /\ notified' = FALSE
    /\ subRun' = IF ~counted THEN 0
                 ELSE IF mPreRotationLatency = kPreRotationLatency THEN 1
                 ELSE IF subRun > 0 THEN subRun + 1 ELSE 0
    /\ cleanRun' = IF ~counted THEN 0
                   ELSE IF mPreRotationLatency = kPreRotationLatency
                   THEN (IF mOldSwapchain = VK_NULL_HANDLE THEN 1 ELSE 0)
                   ELSE IF cleanRun > 0 THEN cleanRun + 1 ELSE 0
    /\ stale' = IF differ /\ ~swap THEN stale + 1 ELSE 0
    /\ UNCHANGED <<mIsRendererReady, mDevice, mTextures, inits, released, termNoOp>>

\* Renderer::drawFrame lines 56-57: the wait on the slot's fence times out
\* and the ASSERT ends the process.
drawFrameTimeout ==
    /\ ~aborted
    /\ mIsRendererReady
    /\ ~WaitForFences(FrameIndex(mFrameCount))
    /\ aborted' = TRUE
    /\ UNCHANGED <<mIsRendererReady, renderer, device, history>>

\* An acquire failure that is passed over, the frame counted and the
\* process going on: C25 tells it from drawFrameAcquireFailed.
drawFrameAcquireIgnored ==
    /\ ~aborted
    /\ mIsRendererReady
    /\ WaitForFences(FrameIndex(mFrameCount))
    /\ mInflightFences' = [mInflightFences EXCEPT ![FrameIndex(mFrameCount)] = FALSE]
    /\ mFrameCount' = mFrameCount + 1
    /\ UNCHANGED <<mIsRendererReady, mDevice, mTextures, mSurfaceWidth,
                   mSurfaceHeight, mImageWidth, mImageHeight, mPreTransform,
                   mSwapchain, mImages, mImageViews, mFramebuffers,
                   mFireRecreateSwapchain, mPreRotationLatency, mRetireFrame,
                   mOldSwapchain, mOldImages, mOldImageViews, mOldFramebuffers,
                   device, aborted, history>>

\* Renderer::drawFrame lines 62-64: vkAcquireNextImageKHR does not return
\* VK_SUCCESS and the ASSERT ends the process, the slot's fence already reset.
drawFrameAcquireFailed ==
    /\ ~aborted
    /\ mIsRendererReady
    /\ WaitForFences(FrameIndex(mFrameCount))
    /\ mInflightFences' = [mInflightFences EXCEPT ![FrameIndex(mFrameCount)] = FALSE]
    /\ aborted' = TRUE
    /\ UNCHANGED <<mIsRendererReady, mDevice, mTextures, mFrameCount, mSurfaceWidth,
                   mSurfaceHeight, mImageWidth, mImageHeight, mPreTransform,
                   mSwapchain, mImages, mImageViews, mFramebuffers,
                   mFireRecreateSwapchain, mPreRotationLatency, mRetireFrame,
                   mOldSwapchain, mOldImages, mOldImageViews, mOldFramebuffers,
                   device, history>>

\* The platform is asked for the surface's transform only in a frame with a swap
\* trigger (line 109), and for its capabilities and the image count only when
\* a swap is executed (line 123): elsewhere the answer is never read, and one
\* value stands for all.
ProbesFor(ret, transforms) ==
    IF SwapTrigger(ret) THEN transforms ELSE {Identity}

CapsFor(ret, currentTransform, capsSet) ==
    IF SwapTrigger(ret) /\ SwapNow(currentTransform) THEN capsSet
    ELSE {[currentExtent |-> <<1080, 1920>>, currentTransform |-> Identity]}

CountsFor(ret, currentTransform, counts) ==
    IF SwapTrigger(ret) /\ SwapNow(currentTransform) THEN counts
    ELSE {kReqImageCount}

\* ------------------------------------------------------------ the system
\* The full model: every operation, a few frames, swapchains of the
\* requested image count.
Next ==
    \/ \E caps \in SurfaceCaps :
          inits < MaxInits /\ onInitWindow(caps, kReqImageCount, SquareTexture) /\ UNCHANGED engine
    \/ \E e \in Extents : onWindowResized(e[1], e[2]) /\ UNCHANGED engine
    \/ onTermWindow /\ UNCHANGED engine
    \/ \E slot \in 1..kInflight : GpuComplete(slot) /\ UNCHANGED engine
    \/ \E ret \in PresentResults :
         \E currentTransform \in ProbesFor(ret, Transforms) :
           \E caps \in CapsFor(ret, currentTransform, SurfaceCaps) :
              \E imageIndex \in AcquireNextImage :
                 mFrameCount < MaxFrames
                   /\ drawFrame(ret, imageIndex, currentTransform, caps,
                                kReqImageCount) /\ UNCHANGED engine
    \/ drawFrameTimeout /\ UNCHANGED engine
    \/ drawFrameAcquireFailed /\ UNCHANGED engine

Spec == Init /\ [][Next]_vars

\* The countdown model: one window, no resize, images acquired in turn, the
\* surface a quarter turn from the generation or not at all, frames enough
\* for the latency counter to run out and the generation it supersedes to
\* retire.
NextCountdown ==
    \/ \E caps \in QuarterCaps :
          onInitWindow(caps, kReqImageCount, SquareTexture) /\ UNCHANGED engine
    \/ \E slot \in 1..kInflight : GpuComplete(slot) /\ UNCHANGED engine
    \/ \E ret \in {VK_SUCCESS, VK_SUBOPTIMAL_KHR} :
         \E currentTransform \in ProbesFor(ret, QuarterTurns) :
           \E caps \in CapsFor(ret, currentTransform, QuarterCaps) :
              mFrameCount < MaxFramesLong
                /\ drawFrame(ret, nextImage, currentTransform, caps,
                             kReqImageCount) /\ UNCHANGED engine

SpecCountdown == Init /\ [][NextCountdown]_vars

\* The resize model: one window, an upright surface, images acquired in
\* turn, resize notifications while few generations have been created,
\* frames enough for a resize at frame 10 to retire.
NextResize ==
    \/ onInitWindow([currentExtent |-> <<1080, 1920>>, currentTransform |-> Identity],
                    kReqImageCount, SquareTexture) /\ UNCHANGED engine
    \/ \E e \in Extents :
          Len(swappedAt) <= MaxGenerations /\ onWindowResized(e[1], e[2]) /\ UNCHANGED engine
    \/ \E slot \in 1..kInflight : GpuComplete(slot) /\ UNCHANGED engine
    \/ \E ret \in PresentResults :
         \E caps \in CapsFor(ret, Identity, UprightCaps) :
            mFrameCount < MaxFramesResize
              /\ drawFrame(ret, nextImage, Identity, caps, kReqImageCount) /\ UNCHANGED engine

SpecResize == Init /\ [][NextResize]_vars

\* The model of createSwapchain: every answer of the platform, at window
\* creation and at a swap; the textures that are not square are loaded for
\* windows created upright with the requested image count, and see the
\* other answers at a swap.
NextSurface ==
    \/ \E caps \in AllCaps, imageCount \in ImageCounts, texture \in TextureSizes :
          /\ texture = SquareTexture
               \/ (imageCount = kReqImageCount /\ caps.currentTransform = Identity)
          /\ onInitWindow(caps, imageCount, texture) /\ UNCHANGED engine
    \/ \E e \in Extents : onWindowResized(e[1], e[2]) /\ UNCHANGED engine
    \/ \E caps \in CapsFor(VK_SUCCESS, Identity, AllCaps),
          imageCount \in CountsFor(VK_SUCCESS, Identity, ImageCounts) :
          \E imageIndex \in AcquireNextImage :
             mFrameCount < MaxFramesSurface
               /\ drawFrame(VK_SUCCESS, imageIndex, Identity, caps, imageCount) /\ UNCHANGED engine

SpecSurface == Init /\ [][NextSurface]_vars

\* The model of the rotation check: a window created under any transform,
\* frames whose present succeeds or is suboptimal while the surface reports
\* any transform, images acquired in turn.
RotationCaps == CapsOf({<<1080, 1920>>}, Transforms)

NextRotation ==
    \/ \E caps \in RotationCaps :
          onInitWindow(caps, kReqImageCount, SquareTexture) /\ UNCHANGED engine
    \/ \E slot \in 1..kInflight : GpuComplete(slot) /\ UNCHANGED engine
    \/ \E ret \in {VK_SUCCESS, VK_SUBOPTIMAL_KHR} :
         \E currentTransform \in ProbesFor(ret, Transforms) :
           \E caps \in CapsFor(ret, currentTransform, RotationCaps) :
              mFrameCount < MaxFramesRotation
                /\ drawFrame(ret, nextImage, currentTransform, caps,
                             kReqImageCount) /\ UNCHANGED engine

SpecRotation == Init /\ [][NextRotation]_vars

\* ------------------------------------------------- the engine's threads
\* A thread calls an entry point and arrives at its lock_guard. The activity
\* glue sends APP_CMD_INIT_WINDOW only when no window is set.
Call(t, op) ==
    /\ ~aborted
    /\ pc[t] = Idle
    /\ op \in EntryPoints(t)
    /\ op = "onInitWindow" => ~mIsRendererReady /\ inits < MaxInits
    /\ pc' = [pc EXCEPT ![t] = [op |-> op, at |-> "lock_guard"]]
    /\ UNCHANGED <<mIsRendererReady, renderer, device, aborted, history, mLock,
                   posted>>

\* The lock_guard's constructor takes the mutex.
Lock(t) ==
    /\ ~aborted
    /\ pc[t].at = "lock_guard"
    /\ lock_guard(t)
    /\ mLock' = t
    /\ pc' = [pc EXCEPT ![t].at = "body"]
    /\ UNCHANGED <<mIsRendererReady, renderer, device, aborted, history, posted>>

\* The end of the entry point's block: the lock_guard's destructor releases
\* the mutex.
Unlock(t) ==
    /\ ~aborted
    /\ pc[t].at = "unlock"
    /\ mLock' = NoThread
    /\ pc' = [pc EXCEPT ![t] = Idle]
    /\ UNCHANGED <<mIsRendererReady, renderer, device, aborted, history, posted>>

\* Engine::isReady line 23.
EngineIsReady(t) ==
    /\ ~aborted
    /\ pc[t] = [op |-> "isReady", at |-> "body"]
    /\ pc' = [pc EXCEPT ![t].at = "unlock"]
    /\ UNCHANGED <<mIsRendererReady, renderer, device, aborted, history, mLock,
                   posted>>

\* Engine::drawFrame line 28.
EngineDrawFrameCheck(t) ==
    /\ ~aborted
    /\ pc[t] = [op |-> "drawFrame", at |-> "body"]
    /\ pc' = [pc EXCEPT ![t].at = IF RendererReady THEN "render" ELSE "unlock"]
    /\ UNCHANGED <<mIsRendererReady, renderer, device, aborted, history, mLock,
                   posted>>

\* Engine::drawFrame line 29.
EngineDrawFrameRender(t, ret, imageIndex, currentTransform, caps, imageCount) ==
    /\ pc[t] = [op |-> "drawFrame", at |-> "render"]
    /\ drawFrame(ret, imageIndex, currentTransform, caps, imageCount)
    /\ pc' = [pc EXCEPT ![t].at = "unlock"]
    /\ UNCHANGED <<mLock, posted>>

\* Engine::onInitWindow lines 36-37.
EngineOnInitWindow(t, caps, imageCount, texture) ==
    /\ pc[t] = [op |-> "onInitWindow", at |-> "body"]
    /\ onInitWindow(caps, imageCount, texture)
    /\ pc' = [pc EXCEPT ![t].at = "unlock"]
    /\ UNCHANGED <<mLock, posted>>

\* Engine::onWindowResized lines 43-45.
EngineOnWindowResized(t, width, height) ==
    /\ pc[t] = [op |-> "onWindowResized", at |-> "body"]
    /\ onWindowResized(width, height)
    /\ pc' = [pc EXCEPT ![t].at = "unlock"]
    /\ UNCHANGED <<mLock, posted>>

\* Engine::onTermWindow lines 51-54.
EngineOnTermWindow(t) ==
    /\ pc[t] = [op |-> "onTermWindow", at |-> "body"]
    /\ onTermWindow
    /\ pc' = [pc EXCEPT ![t].at = "unlock"]
    /\ UNCHANGED <<mLock, posted>>

\* The model of the engine's threads: the render thread and the host thread
\* call the entry points, each a sequence of steps under the mutex; an
\* upright surface, presents that succeed or are out of date, images
\* acquired in turn.
NextEngine ==
    \/ \E t \in Threads : \E op \in EntryPoints(t) : Call(t, op)
    \/ \E t \in Threads : Lock(t)
    \/ \E t \in Threads : Unlock(t)
    \/ \E t \in Threads : EngineIsReady(t)
    \/ \E t \in Threads : EngineDrawFrameCheck(t)
    \/ \E t \in Threads :
          \E ret \in {VK_SUCCESS, VK_ERROR_OUT_OF_DATE_KHR} :
             \E caps \in CapsFor(ret, Identity, UprightCaps) :
                mFrameCount < MaxFramesEngine
                  /\ EngineDrawFrameRender(t, ret, nextImage, Identity, caps,
                                           kReqImageCount)
    \/ \E t \in Threads :
          EngineOnInitWindow(t, [currentExtent |-> <<1080, 1920>>,
                                 currentTransform |-> Identity],
                             kReqImageCount, SquareTexture)
    \/ \E t \in Threads : \E e \in Extents : EngineOnWindowResized(t, e[1], e[2])
    \/ \E t \in Threads : EngineOnTermWindow(t)
    \/ \E slot \in 1..kInflight : GpuComplete(slot) /\ UNCHANGED engine

SpecEngine == Init /\ [][NextEngine]_vars

\* ------------------------------------------------------------- the looper
\* handleAppCmd, APP_CMD_INIT_WINDOW (lines 103-107): the window is
\* initialized and a frame callback posted. APP_CMD_TERM_WINDOW (lines
\* 108-110): the window is terminated; a callback that is pending stays
\* posted.
handleAppCmd(cmd, caps) ==
    IF cmd = "APP_CMD_INIT_WINDOW"
    THEN /\ onInitWindow(caps, kReqImageCount, SquareTexture)
         /\ posted' = posted + 1
         /\ UNCHANGED <<mLock, pc>>
    ELSE /\ onTermWindow
         /\ UNCHANGED engine

\* onChoreographer lines 84-98: a posted callback runs. When the engine is
\* not ready it returns, and its chain ends; when it is ready it posts itself
\* again and draws a frame.
onChoreographer(ret, imageIndex, currentTransform, caps, imageCount) ==
    /\ posted > 0
    /\ IF mIsRendererReady
       THEN /\ drawFrame(ret, imageIndex, currentTransform, caps, imageCount)
            /\ posted' = (posted - 1) + 1
       ELSE /\ ~aborted
            /\ posted' = posted - 1
            /\ UNCHANGED <<mIsRendererReady, renderer, device, aborted, history>>
    /\ UNCHANGED <<mLock, pc>>

\* The model of the looper thread: window commands and frame callbacks, one
\* at a time, and the activity's resize notifications between them; an
\* upright surface, presents that succeed, images acquired in turn.
NextLooper ==
    \/ inits < MaxInits
         /\ handleAppCmd("APP_CMD_INIT_WINDOW",
                         [currentExtent |-> <<1080, 1920>>, currentTransform |-> Identity])
    \/ handleAppCmd("APP_CMD_TERM_WINDOW",
                    [currentExtent |-> <<1080, 1920>>, currentTransform |-> Identity])
    \/ \E e \in Extents : onWindowResized(e[1], e[2]) /\ UNCHANGED engine
    \/ \E caps \in CapsFor(VK_SUCCESS, Identity, UprightCaps) :
          (mIsRendererReady => mFrameCount < MaxFrames)
            /\ onChoreographer(VK_SUCCESS, nextImage, Identity, caps, kReqImageCount)
    \/ \E slot \in 1..kInflight : GpuComplete(slot) /\ UNCHANGED engine

SpecLooper == Init /\ [][NextLooper]_vars

\* ================================================================ claims

\* C1, as stated: from a state where the latency counter holds its seed, with
\* no resize pending and the surface never a half turn away, N < 30
\* consecutive suboptimal frames execute no swap and destroy no swapchain
\* resource, and the 30th executes exactly one swap.
C1_AsStated ==
    /\ (subRun \in 1..(kPreRotationLatency - 1)
           => ~log.swapped /\ log.retired = {})
    /\ (subRun = kPreRotationLatency
           => log.swapped /\ Cardinality(log.created) = 1)

\* C1, amended: the same, when in addition no generation is pending
\* retirement at the start of the run (mOldSwapchain is null).
C1_CountdownFromClean ==
    /\ (cleanRun \in 1..(kPreRotationLatency - 1)
           => ~log.swapped /\ log.retired = {})
    /\ (cleanRun = kPreRotationLatency
           => log.swapped /\ Cardinality(log.created) = 1)

C1_Witness ==
    /\ cleanRun = kPreRotationLatency
    /\ log.swapped
    /\ log.latency = 1

\* C2: the handles a drawFrame's retire check destroys belong to generations
\* superseded at least kInflight frames before; and the drawFrame with frame
\* count f + kInflight, f the frame of the last swap with no swap since,
\* destroys the outgoing generation's swapchain, views and framebuffers and
\* leaves mOldSwapchain null.
C2_RetiredAtInflight ==
    log.n >= 0 =>
      /\ \A h \in log.retired :
            /\ swappedAt[h[2]] >= 0
            /\ swappedAt[h[2]] + kInflight <= log.n
      /\ (log.prevSwap.frame >= 0 /\ log.n = log.prevSwap.frame + kInflight
            => /\ ScHandle(log.prevSwap.outgoing) \in log.retired
               /\ log.prevSwap.handles \subseteq log.retired
               /\ log.oldAfterRetire = VK_NULL_HANDLE)
      /\ (log.retired # {} => log.oldAfterRetire = VK_NULL_HANDLE)

C2_Witness ==
    /\ log.n >= kInflight
    /\ log.prevSwap.frame = log.n - kInflight
    /\ ScHandle(log.prevSwap.outgoing) \in log.retired
    /\ \E h \in log.retired : h[1] = "framebuffer" /\ h[2] = log.prevSwap.outgoing
    /\ mOldSwapchain = VK_NULL_HANDLE

\* C3: when a drawFrame's retire check destroys a generation, no command
\* buffer submitted and not yet waited for references a framebuffer or an
\* image view that is destroyed.
C3_NoUnwaitedUse ==
    log.n >= 0 =>
      \A u \in log.unwaited :
         /\ FbHandle(u[1], u[2]) \notin log.retired
         /\ ViewHandle(u[1], u[2]) \notin log.retired

C3_Witness ==
    /\ log.n >= 0
    /\ Cardinality(log.unwaited) = kInflight
    /\ \E h \in log.retired : h[1] = "framebuffer"

\* C4, as stated: mOldSwapchain is null whenever the swap block of drawFrame
\* runs.
C4_AsStated ==
    log.n >= 0 /\ log.swapped => log.oldAtSwap = VK_NULL_HANDLE

\* C5, as stated: no handle is destroyed twice, and after destroy() returns
\* no swapchain, image view or framebuffer ever created remains undestroyed.
C5_AsStated ==
    /\ doubleFreed = {}
    /\ (inits > 0 /\ ~mIsRendererReady /\ ~aborted => live = {})

\* C6: the frame with frame count n uses slot n mod kInflight, and uses it
\* only once the slot's fence is signaled: the slot's previous submission is
\* that of frame n - kInflight, and it has completed.
C6_SlotReuse ==
    log.n >= 0 =>
      /\ log.slot - 1 = log.n % kInflight
      /\ log.fenceSignaled
      /\ log.prevDone
      /\ log.prevOnSlot \in {-1, log.n - kInflight}

C6_Witness ==
    /\ log.n >= kInflight
    /\ log.prevOnSlot = log.n - kInflight
    /\ log.prevDone

\* C7: a drawFrame whose present returned suboptimal and in which the
\* surface reports a transform a half turn from the generation's executes
\* the swap in that frame, whatever the latency counter holds.
C7_HalfTurnSwaps ==
    log.n >= 0 /\ log.ret = VK_SUBOPTIMAL_KHR /\ log.half => log.swapped

C7_Witness ==
    /\ log.n >= 0
    /\ log.ret = VK_SUBOPTIMAL_KHR
    /\ log.half
    /\ ~log.notified
    /\ log.latency > 1
    /\ log.latency < kPreRotationLatency
    /\ log.swapped

\* C8: the drawFrame that follows a resize notification whose width or height
\* differs from the generation's recorded ones executes a swap, whatever the
\* present result and the latency counter; and kInflight frames after such a
\* swap, with no swap in between, the old generation is destroyed (a
\* notification during frame 10: swap at 10, destroyed at 12).
C8_ResizeSwaps ==
    log.n >= 0 =>
      /\ (log.notified => log.swapped /\ ~log.fatal)
      /\ (log.prevSwap.notified /\ log.n = log.prevSwap.frame + kInflight
            => ScHandle(log.prevSwap.outgoing) \in log.retired)

C8_Witness ==
    /\ log.n = 12
    /\ log.prevSwap.frame = 10
    /\ log.prevSwap.notified
    /\ ScHandle(log.prevSwap.outgoing) \in log.retired

\* C9: while the surface's transform differs from the generation's and every
\* present is suboptimal, fewer than kPreRotationLatency consecutive frames
\* go by without a swap; and the generation a swap creates has the transform
\* the surface reported to that swap.
C9_RotationFollowed ==
    /\ stale < kPreRotationLatency
    /\ (log.n >= 0 /\ log.swapped => mPreTransform = probed.currentTransform)

C9_Witness ==
    /\ log.n >= 0
    /\ log.swapped
    /\ log.stale = kPreRotationLatency - 1
    /\ log.pre = Identity
    /\ mPreTransform = Rotate90

\* C10: the generation createSwapchain builds has the probed extent as its
\* logical surface size, and as its image extent the probed extent with
\* width and height exchanged exactly when the probed transform is Rotate90
\* or Rotate270 (Identity 1080x1920: 1080x1920; Rotate90 1080x1920:
\* 1920x1080).
C10_ImageExtent ==
    mIsRendererReady =>
      /\ <<mSurfaceWidth, mSurfaceHeight>> = probed.currentExtent
      /\ (probed.currentTransform \in {Rotate90, Rotate270}
            => <<mImageHeight, mImageWidth>> = probed.currentExtent)
      /\ (probed.currentTransform \notin {Rotate90, Rotate270}
            => <<mImageWidth, mImageHeight>> = probed.currentExtent)
      /\ (probed = [currentExtent |-> <<1080, 1920>>, currentTransform |-> Identity]
            => <<mImageWidth, mImageHeight>> = <<1080, 1920>>)
      /\ (probed = [currentExtent |-> <<1080, 1920>>, currentTransform |-> Rotate90]
            => <<mImageWidth, mImageHeight>> = <<1920, 1080>>)

C10_Witness ==
    /\ mIsRendererReady
    /\ log.n >= 0
    /\ log.swapped
    /\ probed = [currentExtent |-> <<1080, 1920>>, currentTransform |-> Rotate90]
    /\ <<mImageWidth, mImageHeight>> = <<1920, 1080>>
    /\ <<mSurfaceWidth, mSurfaceHeight>> = <<1080, 1920>>

\* The rotation transform half a turn from a rotation transform, and the one
\* that turns it back.
HalfAway(t) == CHOOSE u \in Transforms : HalfTurn(t, u)

TurnsBack(t) ==
    CHOOSE u \in Transforms :
       Degrees(u) >= 0 /\ (Degrees(t) + Degrees(u)) % 360 = 0

\* C11: the pre-rotation matrix a frame records is the rotation by 0, 90, 180
\* and 270 degrees (to float rounding) for the generation's transform
\* Identity, Rotate90, Rotate180 and Rotate270, and exactly the identity
\* matrix for Identity and for every other transform.
C11_PreRotateMatrix ==
    log.n >= 0 =>
      /\ NearMatrix(log.preRotate, RotationBy(Degrees(log.pre)))
      /\ (Degrees(log.pre) <= 0 => log.preRotate = RotationBy(0))

C11_Witness ==
    /\ log.n >= 0
    /\ log.pre = Rotate90
    /\ log.preRotate.yx = FixUnit
    /\ log.preRotate.xy = -FixUnit
    /\ log.preRotate.xx # 0

\* C12, as stated: for each of the four rotation transforms T the matrix
\* recorded for T, composed with the matrix of the transform half a turn
\* from T, is the identity matrix.
C12_AsStated ==
    log.n >= 0 /\ Degrees(log.pre) >= 0 =>
      NearMatrix(MatMul(log.preRotate, preRotate(HalfAway(log.pre))),
                 RotationBy(0))

\* C12, amended: composed with the matrix of the transform that turns T back
\* (Identity for Identity, Rotate270 for Rotate90, Rotate180 for Rotate180,
\* Rotate90 for Rotate270) it is the identity matrix; composed with the
\* matrix of the transform half a turn from T it is the identity for
\* Rotate90 and Rotate270 and the half turn for Identity and Rotate180.
C12_TurnsBack ==
    log.n >= 0 /\ Degrees(log.pre) >= 0 =>
      /\ NearMatrix(MatMul(log.preRotate, preRotate(TurnsBack(log.pre))),
                    RotationBy(0))
      /\ NearMatrix(MatMul(log.preRotate, preRotate(HalfAway(log.pre))),
                    IF log.pre \in {Rotate90, Rotate270}
                    THEN RotationBy(0) ELSE RotationBy(180))

C12_Witness ==
    /\ log.n >= 0
    /\ log.pre = Rotate90
    /\ HalfAway(log.pre) = Rotate270
    /\ MatMul(log.preRotate, preRotate(Rotate270)).xx >= FixUnit - 100
    /\ MatMul(log.preRotate, preRotate(Rotate270)).xy \in -100..100

\* What a test of the scales compares them to: 1.0, and the quotient of two
\* whole numbers in single precision.
F32One == F32FromInt(1)

F32Ratio(p, q) == F32Div(F32FromInt(p), F32FromInt(q))

\* C13, as stated: the X scale divided by the Y scale of the mvp a frame
\* records equals contentW / contentH, within float tolerance (16 units in
\* the last place).
C13_AsStated ==
    log.n >= 0 =>
      UlpsApart(F32Div(log.mvp.x, log.mvp.y),
                F32Ratio(log.texture[1], log.texture[2])) <= 16

\* C13, amended: the X scale divided by the Y scale equals
\* (contentW * surfaceH) / (contentH * surfaceW), within float tolerance:
\* it is the picture drawn on the surface, X scale * surfaceW wide and
\* Y scale * surfaceH high, that has the ratio contentW / contentH.
C13_AspectOnSurface ==
    log.n >= 0 =>
      UlpsApart(F32Div(log.mvp.x, log.mvp.y),
                F32Ratio(log.texture[1] * log.surface[2],
                         log.texture[2] * log.surface[1])) <= 16

C13_Witness ==
    /\ log.n >= 0
    /\ log.surface = <<1080, 1920>>
    /\ log.texture = <<1024, 512>>
    /\ log.mvp.x = F32One
    /\ F32Less(log.mvp.y, F32One)

\* C14: neither the X nor the Y scale of the mvp a frame records exceeds
\* 1.0, and the one of the axis with the smaller scale is 1.0.
C14_ScalesAtMostOne ==
    log.n >= 0 =>
      /\ ~F32Less(F32One, log.mvp.x)
      /\ ~F32Less(F32One, log.mvp.y)
      /\ (log.mvp.x = F32One \/ log.mvp.y = F32One)

C14_Witness ==
    /\ log.n >= 0
    /\ log.surface = <<800, 600>>
    /\ log.texture = <<300, 400>>
    /\ log.mvp.y = F32One
    /\ F32Less(log.mvp.x, F32One)

\* C15: a step that sets the swap-requested flag (only updateSurface does)
\* changes nothing else of the renderer or the device, and is taken only for
\* a notification whose dimensions differ from the recorded ones; a
\* drawFrame executes at most one swap and leaves the flag cleared, so the
\* notifications before it are answered by that one swap.
C15_ResizeOnlyRequests ==
    /\ [][ ~mFireRecreateSwapchain /\ mFireRecreateSwapchain'
             => /\ notified'
                /\ UNCHANGED <<mIsRendererReady, mDevice, mTextures,
                               mFrameCount, mSurfaceWidth, mSurfaceHeight,
                               mImageWidth, mImageHeight, mPreTransform,
                               mSwapchain, mImages, mImageViews, mFramebuffers,
                               mPreRotationLatency, mRetireFrame, mOldSwapchain,
                               mOldImages, mOldImageViews, mOldFramebuffers,
                               mInflightFences, device, aborted, log>> ]_vars
    /\ [][ log' # log /\ log'.n >= 0
             => /\ ~mFireRecreateSwapchain'
                /\ Cardinality(log'.created) <= 1
                /\ (log'.notified => Cardinality(log'.created) = 1) ]_vars

C15_Witness ==
    /\ mFireRecreateSwapchain
    /\ notified
    /\ mFrameCount > 0
    /\ log.n = mFrameCount - 1
    /\ ~log.swapped

\* The place of an object in a teardown, 0 when it is not released.
Place(seq, x) ==
    IF \E i \in DOMAIN seq : seq[i] = x
    THEN CHOOSE i \in DOMAIN seq : seq[i] = x
    ELSE 0

\* The objects of order that seq releases are released in order's order.
InOrder(seq, order) ==
    LET listed   == {order[i] : i \in DOMAIN order}
        done == {seq[i] : i \in DOMAIN seq}
    IN SelectSeq(seq, LAMBDA x : x \in listed)
          = SelectSeq(order, LAMBDA x : x \in done)

\* C20, as stated: destroy() releases sync objects, command buffers and
\* pool, pipeline, render pass, descriptor objects, textures, the swapchain
\* generations, the surface, the device and the instance in that order, the
\* surface before the device.
C20_AsStated ==
    released # <<>> =>
       /\ InOrder(released,
                  <<"fences", "semaphores", "commandBuffers", "commandPool",
                    "pipeline", "pipelineLayout", "renderPass",
                    "descriptorPool", "descriptorSetLayout", "textures",
                    "oldSwapchain", "swapchain", "surface", "device",
                    "instance">>)
       /\ Place(released, "surface") > 0
       /\ Place(released, "device") > Place(released, "surface")

\* C20, amended: the order is as stated up to the swapchain generations,
\* both of which are released before the device; the device is then
\* destroyed before the surface, and the instance last.
C20_DeviceBeforeSurface ==
    released # <<>> =>
       /\ InOrder(released,
                  <<"fences", "semaphores", "commandBuffers", "commandPool",
                    "pipeline", "pipelineLayout", "renderPass",
                    "descriptorPool", "descriptorSetLayout", "textures",
                    "oldSwapchain", "swapchain", "device", "surface",
                    "instance">>)
       /\ Place(released, "swapchain") > 0
       /\ Place(released, "device") > Place(released, "swapchain")
       /\ Place(released, "surface") > Place(released, "device")
       /\ Place(released, "instance") = Len(released)

C20_Witness ==
    /\ ~mIsRendererReady
    /\ Place(released, "oldSwapchain") > 0
    /\ Place(released, "device") > Place(released, "oldSwapchain")

\* C18, as stated: a frame whose present result is neither success nor
\* suboptimal aborts the process, executes no swap and is the last frame,
\* whether or not a resize request is pending.
C18_AsStated ==
    log.n >= 0 /\ log.ret \notin {VK_SUCCESS, VK_SUBOPTIMAL_KHR}
       => /\ log.fatal
          /\ ~log.swapped
          /\ aborted
          /\ mFrameCount = log.n

\* C19: in every drawFrame that reaches the swap check the steps take
\* effect in the stated order. The slot's fence is signaled when waited on
\* and reset before the submission; the submission references the
\* framebuffer held for the acquired image, created in the frame when none
\* was held; the retire check
\* acts on the generation held before the swap check replaces it and fires
\* exactly when mRetireFrame equals the frame count the frame started with;
\* the swap check schedules the retirement from that same count; the count
\* is incremented last.
C19_StepOrder ==
    [][ log' # log /\ log'.n >= 0 =>
          LET slot == FrameIndex(mFrameCount)
              due  == mOldSwapchain # VK_NULL_HANDLE /\ mRetireFrame = mFrameCount
          IN
          /\ mInflightFences[slot]
          /\ ~mInflightFences'[slot]
          /\ gpu'[slot].frame = mFrameCount
          /\ gpu'[slot].fb # VK_NULL_HANDLE
          /\ (mFramebuffers[gpu'[slot].index] = VK_NULL_HANDLE
                => /\ gpu'[slot].fb = mImages[gpu'[slot].index]
                   /\ FbHandle(gpu'[slot].fb, gpu'[slot].index) \in live')
          /\ (mFramebuffers[gpu'[slot].index] # VK_NULL_HANDLE
                => gpu'[slot].fb = mFramebuffers[gpu'[slot].index])
          /\ log'.retired = (IF due THEN OldSwapchainHandles ELSE {})
          /\ (log'.swapped =>
                 /\ log'.oldAtSwap = (IF due THEN VK_NULL_HANDLE ELSE mOldSwapchain)
                 /\ mOldSwapchain' = mSwapchain
                 /\ mRetireFrame' = mFrameCount + kInflight)
          /\ (~log'.swapped /\ due => mOldSwapchain' = VK_NULL_HANDLE)
          /\ log'.n = mFrameCount
          /\ mFrameCount' = (IF log'.fatal THEN mFrameCount ELSE mFrameCount + 1)
      ]_vars

C19_Witness ==
    /\ log.n >= kInflight
    /\ mFrameCount = log.n + 1
    /\ log.retired # {}
    /\ log.swapped
    /\ log.prevSwap.frame = log.n - kInflight
    /\ mRetireFrame = log.n + kInflight

\* A thread is inside an entry point's block, past its lock_guard.
Inside(t) == pc[t].at \in {"body", "render", "unlock"}

\* C16: a thread inside the block of isReady, drawFrame, onInitWindow,
\* onWindowResized or onTermWindow holds the mutex, so no two threads are
\* inside at once; the renderer is still ready when drawFrame reaches its
\* renderer call; and while the render thread is inside an entry point
\* nothing but its own steps (and the GPU) changes the engine's or the
\* renderer's state: a notification takes effect before or after, never
\* during.
C16_MutexHeld ==
    /\ [](\A t \in Threads : Inside(t) => mLock = t)
    /\ [](\A t, u \in Threads : Inside(t) /\ Inside(u) => t = u)
    /\ [](pc[RenderThread].at = "render" => mIsRendererReady)
    /\ [][ Inside(RenderThread) /\ pc'[RenderThread] = pc[RenderThread]
             => UNCHANGED <<mIsRendererReady, mDevice, mTextures, mFrameCount,
                            mSurfaceWidth, mSurfaceHeight, mImageWidth,
                            mImageHeight, mPreTransform, mSwapchain, mImages,
                            mImageViews, mFramebuffers, mFireRecreateSwapchain,
                            mPreRotationLatency, mRetireFrame, mOldSwapchain,
                            mOldImages, mOldImageViews, mOldFramebuffers,
                            notified, log>> ]_vars

C16_Witness ==
    /\ pc[RenderThread] = [op |-> "drawFrame", at |-> "render"]
    /\ pc[HostThread] = [op |-> "onWindowResized", at |-> "lock_guard"]
    /\ mLock = RenderThread
    /\ mFrameCount > 0

\* C17: a drawFrame that finds the renderer not ready goes straight to the
\* end of its block: from its check to its return no field of the engine,
\* the renderer or the device changes and the process goes on.
C17_NotReadyNoOp ==
    /\ [][ (pc[RenderThread] = [op |-> "drawFrame", at |-> "body"]
             /\ ~mIsRendererReady
             /\ pc'[RenderThread] # pc[RenderThread])
           => (pc'[RenderThread].at = "unlock"
               /\ UNCHANGED <<mIsRendererReady, renderer, device, aborted,
                              history>>) ]_vars
    /\ [][ (pc[RenderThread] = [op |-> "drawFrame", at |-> "unlock"]
             /\ ~mIsRendererReady)
           => UNCHANGED <<mIsRendererReady, renderer, device, aborted,
                          history>> ]_vars

C17_Witness ==
    /\ pc[RenderThread] = [op |-> "drawFrame", at |-> "unlock"]
    /\ ~mIsRendererReady
    /\ inits > 0
    /\ mFrameCount > 0
    /\ ~aborted

\* C21, as stated: a generation starts with no image view and no
\* framebuffer; within a generation a frame creates the view and the
\* framebuffer of the acquired index when it has none, from the generation's
\* image, and leaves every other index, and an index that has them, as they
\* are.
C21_AsStated ==
    [][ /\ (mIsRendererReady' /\ mSwapchain' # mSwapchain
              => \A i \in DOMAIN mFramebuffers' :
                    /\ mFramebuffers'[i] = VK_NULL_HANDLE
                    /\ mImageViews'[i] = VK_NULL_HANDLE)
        /\ (mIsRendererReady /\ mIsRendererReady' /\ mSwapchain' = mSwapchain
              => \A i \in DOMAIN mFramebuffers :
                    /\ mFramebuffers[i] # VK_NULL_HANDLE
                          => mFramebuffers'[i] = mFramebuffers[i]
                    /\ mImageViews[i] # VK_NULL_HANDLE
                          => mImageViews'[i] = mImageViews[i]
                    /\ mFramebuffers'[i] # mFramebuffers[i]
                          => /\ log' # log
                             /\ gpu'[FrameIndex(mFrameCount)].index = i
                             /\ mFramebuffers'[i] = mSwapchain
                             /\ mImageViews'[i] = mSwapchain)
      ]_vars

\* C22: the images, image views and framebuffers of the current generation
\* are sequences of one length, the image count reported when it was
\* created, and so are those of the retiring generation; the length stays
\* the same while the generation is current and while it is retiring.
C22_EqualLengths ==
    /\ [](mIsRendererReady
            => /\ Len(mImages) \in ImageCounts
               /\ Len(mImageViews) = Len(mImages)
               /\ Len(mFramebuffers) = Len(mImages))
    /\ [](/\ Len(mOldImageViews) = Len(mOldImages)
          /\ Len(mOldFramebuffers) = Len(mOldImages)
          /\ (mOldSwapchain # VK_NULL_HANDLE => Len(mOldImages) \in ImageCounts))
    /\ [][ (mIsRendererReady /\ mIsRendererReady'
              /\ mSwapchain' = mSwapchain => Len(mImages') = Len(mImages))
          /\ (mIsRendererReady /\ mIsRendererReady'
                /\ mSwapchain' # mSwapchain
                => /\ mOldSwapchain' = mSwapchain
                   /\ Len(mOldImages') = Len(mImages))
          /\ (mOldSwapchain # VK_NULL_HANDLE /\ mOldSwapchain' = mOldSwapchain
                => Len(mOldImages') = Len(mOldImages)) ]_vars

C22_Witness ==
    /\ mIsRendererReady
    /\ mOldSwapchain # VK_NULL_HANDLE
    /\ Len(mFramebuffers) = kReqImageCount + 1
    /\ Len(mOldFramebuffers) = kReqImageCount
    /\ mOldFramebuffers[1] # VK_NULL_HANDLE

\* C23, as stated: the first suboptimal frame of a rotation episode, one
\* whose preceding frame presented with success or executed a swap or that
\* is the first frame, finds the latency counter at kPreRotationLatency, so
\* that a swap by countdown takes kPreRotationLatency suboptimal frames of
\* the episode.
C23_AsStated ==
    [][ (log' # log
         /\ log'.n >= 0
         /\ log'.ret = VK_SUBOPTIMAL_KHR
         /\ (log.n < 0 \/ log.ret = VK_SUCCESS \/ log.swapped))
        => log'.latency = kPreRotationLatency ]_vars

\* The pairs <<reported transform, generation's transform>> a half turn
\* apart.
HalfTurnPairs ==
    {<<Identity, Rotate180>>, <<Rotate180, Identity>>,
     <<Rotate90, Rotate270>>, <<Rotate270, Rotate90>>}

\* C24: is180Rotation is true for exactly the four pairs of a reported
\* transform and a generation's transform that are a half turn apart, and
\* false for equal transforms, quarter turns and mirrored transforms; the
\* relation is symmetric; a suboptimal frame in which the check is false
\* leaves the generation as it is.
C24_HalfTurnExactly ==
    /\ [](mIsRendererReady
            => \A t \in Transforms :
                  is180Rotation(t) <=> <<t, mPreTransform>> \in HalfTurnPairs)
    /\ [](\A p \in HalfTurnPairs : <<p[2], p[1]>> \in HalfTurnPairs)
    /\ [][ (log' # log /\ log'.n >= 0 /\ ~log'.swapped)
           => UNCHANGED <<mPreTransform, mSwapchain, mSurfaceWidth,
                          mSurfaceHeight, mImageWidth, mImageHeight, mImages,
                          mFireRecreateSwapchain, mRetireFrame>> ]_vars
    /\ [][ (log' # log /\ log'.n >= 0 /\ log'.ret = VK_SUBOPTIMAL_KHR)
           => (log'.half => log'.swapped)
              /\ (log'.swapped /\ log'.latency > 1 => log'.half) ]_vars

C24_Witness ==
    /\ log.n >= 0
    /\ log.pre = Rotate270
    /\ log.half
    /\ log.swapped
    /\ log.latency = kPreRotationLatency
    /\ mPreTransform = Rotate90
    /\ is180Rotation(Rotate270)
    /\ ~is180Rotation(HMirror)

\* A slot's fence has been reset and nothing submitted with it: the frame
\* on that slot failed to acquire an image.
AcquireFailedOn(slot) ==
    /\ slot \in DOMAIN gpu
    /\ ~mInflightFences[slot]
    /\ gpu[slot].done

\* C25: a frame whose acquire fails ends the process; it submits and
\* presents nothing, starts no swap, destroys nothing and leaves the frame
\* count as it was.
C25_AcquireFatal ==
    /\ []((\E slot \in 1..kInflight : AcquireFailedOn(slot)) => aborted)
    /\ [][ (~aborted /\ aborted' /\ log' = log
              /\ mInflightFences' # mInflightFences)
           => UNCHANGED <<mFrameCount, gpu, nextImage, live, doubleFreed,
                          swappedAt, mSwapchain, mImages, mImageViews,
                          mFramebuffers, mOldSwapchain, mOldImages,
                          mOldImageViews, mOldFramebuffers, mRetireFrame,
                          mFireRecreateSwapchain, mPreRotationLatency,
                          mPreTransform, mIsRendererReady>> ]_vars
    /\ [][ aborted => UNCHANGED vars ]_vars

C25_Witness ==
    /\ aborted
    /\ mFrameCount > 0
    /\ AcquireFailedOn(FrameIndex(mFrameCount))
    /\ log.n = mFrameCount - 1
    /\ ~log.fatal
    /\ mFireRecreateSwapchain

\* C26: every frame that reaches its present has submitted exactly one
\* command buffer, on its own slot and for the image it acquired, and has
\* presented that image; unless the present result is fatal the frame is
\* counted, and the frame count only ever advances by one, with such a
\* frame: the frames of a countdown and the frame that swaps are frames like
\* any other.
C26_OneSubmitOnePresent ==
    /\ [][ (log' # log /\ log'.n >= 0)
           => LET slot == (mFrameCount % kInflight) + 1 IN
              /\ log'.n = mFrameCount
              /\ gpu'[slot].frame = mFrameCount
              /\ ~gpu'[slot].done
              /\ gpu'[slot].index \in DOMAIN mImages
              /\ \A other \in (1..kInflight) \ {slot} : gpu'[other] = gpu[other]
              /\ (~log'.swapped
                    => nextImage' = (gpu'[slot].index % Len(mImages)) + 1)
              /\ (~log'.fatal => mFrameCount' = mFrameCount + 1) ]_vars
    /\ [][ mFrameCount' # mFrameCount
           => /\ mFrameCount' = mFrameCount + 1
              /\ log'.n = mFrameCount
              /\ gpu'[(mFrameCount % kInflight) + 1].frame = mFrameCount ]_vars

C26_Witness ==
    /\ log.n >= 1
    /\ mFrameCount = log.n + 1
    /\ log.swapped
    /\ log.ret = VK_SUBOPTIMAL_KHR
    /\ gpu[log.slot].frame = log.n
    /\ gpu[FrameIndex(log.n - 1)].frame = log.n - 1
    /\ log.prevSwap.frame < 0

\* C27, as stated: the command buffer a frame submits is bound to a
\* framebuffer created from the image at the acquired index of the
\* generation that is current in the frame, and the pre-rotation matrix
\* and the extent recorded with it are that generation's.
C27_AsStated ==
    [][ (log' # log /\ log'.n >= 0)
        => LET sub == gpu'[FrameIndex(mFrameCount)] IN
           /\ sub.fb = mSwapchain
           /\ sub.fb = mImages[sub.index]
           /\ FbHandle(sub.fb, sub.index) \in live'
           /\ log'.pre = mPreTransform
           /\ log'.preRotate = preRotate(mPreTransform)
           /\ log'.surface = <<mSurfaceWidth, mSurfaceHeight>> ]_vars

\* The model of the latency counter: one upright window, presents that are
\* suboptimal from the first frame on, and in the first frames half turns and
\* resizes that force a swap in the middle of a countdown.
NextLatency ==
    \/ onInitWindow([currentExtent |-> <<1080, 1920>>, currentTransform |-> Identity],
                    kReqImageCount, SquareTexture) /\ UNCHANGED engine
    \/ \E slot \in 1..kInflight : GpuComplete(slot) /\ UNCHANGED engine
    \/ mFrameCount < MaxFramesForced /\ onWindowResized(800, 600) /\ UNCHANGED engine
    \/ \E ret \in (IF mFrameCount < MaxFramesForced
                   THEN {VK_SUCCESS, VK_SUBOPTIMAL_KHR} ELSE {VK_SUBOPTIMAL_KHR}) :
         \E currentTransform \in
               ProbesFor(ret, IF mFrameCount < MaxFramesForced
                              THEN {Identity, Rotate90, Rotate180} ELSE QuarterTurns) :
           \E caps \in CapsFor(ret, currentTransform, QuarterCaps) :
              mFrameCount < MaxFramesLong
                /\ drawFrame(ret, nextImage, currentTransform, caps,
                             kReqImageCount) /\ UNCHANGED engine

SpecLatency == Init /\ [][NextLatency]_vars

\* C28: at every frame boundary the latency counter is in
\* 1..kPreRotationLatency; a frame that swaps, by countdown, half turn or
\* resize, leaves it at kPreRotationLatency with the resize flag clear; the
\* check never takes it below 0, and to 0 only in a frame that swaps; a frame
\* whose swap is forced by a half turn or a pending resize does not decrement
\* it, and a triggered frame that is not forced decrements it by one.
C28_LatencyInRange ==
    /\ [](mPreRotationLatency \in 1..kPreRotationLatency)
    /\ [][ (log' # log /\ log'.n >= 0)
           => /\ log'.checked >= 0
              /\ (log'.checked = 0 => log'.swapped)
              /\ (log'.swapped
                    => (mPreRotationLatency' = kPreRotationLatency
                        /\ ~mFireRecreateSwapchain'))
              /\ ((log'.half \/ mFireRecreateSwapchain)
                    => (log'.swapped /\ log'.checked = mPreRotationLatency))
              /\ ((log'.ret = VK_SUBOPTIMAL_KHR /\ ~log'.half
                     /\ ~mFireRecreateSwapchain)
                    => log'.checked = mPreRotationLatency - 1)
              /\ (~log'.swapped => mPreRotationLatency' = log'.checked) ]_vars

\* A resize forces a swap in the middle of a countdown, and a later countdown
\* runs to its end.
C28_Witness ==
    /\ log.n >= 0 /\ log.swapped /\ log.latency = 1 /\ log.checked = 0
    /\ mPreRotationLatency = kPreRotationLatency
    /\ Len(swappedAt) > 2
    /\ \E sc \in 1..(Len(swappedAt) - 1) : swappedAt[sc] < MaxFramesForced

\* C29: Renderer::destroy runs at most once per onInitWindow: objects are
\* released only by an onTermWindow that finds the renderer ready, which
\* leaves it not ready until the next onInitWindow; an onTermWindow that
\* finds it not ready changes nothing of the engine, the renderer or the
\* device; and while the renderer is not ready a drawFrame or an
\* onWindowResized changes nothing of them either.
C29_DestroyOnce ==
    /\ [](released # <<>> => (~mIsRendererReady /\ mDevice = VK_NULL_HANDLE))
    /\ [][ (released' # released /\ released' # <<>>)
           => (/\ pc[RenderThread] = [op |-> "onTermWindow", at |-> "body"]
               /\ mIsRendererReady /\ ~mIsRendererReady'
               /\ released = <<>>) ]_vars
    /\ [][ (\E t \in Threads :
              /\ pc[t].op \in {"onTermWindow", "drawFrame", "onWindowResized"}
              /\ pc[t].at # "lock_guard"
              /\ pc'[t] # pc[t]
              /\ ~mIsRendererReady)
           => UNCHANGED <<mIsRendererReady, renderer, device, aborted, log,
                          probed, notified, subRun, cleanRun, stale, lastSwap,
                          inits, released>> ]_vars

\* A window was created and terminated, and a second onTermWindow has run
\* to the end of its block.
C29_Witness ==
    /\ pc[RenderThread] = [op |-> "onTermWindow", at |-> "unlock"]
    /\ termNoOp
    /\ inits > 0
    /\ released # <<>>
    /\ ~mIsRendererReady
    /\ ~aborted

\* C30, as stated: at most one frame callback is pending at any time.
C30_AsStated == posted <= 1

====
